---- MODULE Spec2Model ----
(***************************************************************************)
(* Model of the game-building backend in src/gemini.py for ONE project     *)
(* (the project name is the only sharding key: handlers of different       *)
(* projects share no state).                                               *)
(*                                                                         *)
(* The handlers are `async def` bodies without any `await`, served by one  *)
(* worker (gemini.py:1527-1537), so a handler runs to completion before    *)
(* the next one starts.  process_code is split at its external calls       *)
(* (LLM call, file writes, compiler check); `pc` is its position.  Every   *)
(* other handler is one action, enabled only when pc = "idle".             *)
(*                                                                         *)
(* Strings are modelled by small sets of representative strings; ""        *)
(* is the empty string / the absent file.                                  *)
(***************************************************************************)
EXTENDS Integers, Sequences, FiniteSets, TLC

\* gemini.py:622
MAX_ATTEMPTS == 5

\* Bounds of the model (not program constants).
MaxVersions == 3
MaxChat == 2

\* Python None, as a version name / parent.
None == 0

\* Representative file contents.
CodeTexts == {"c1"}
\* A valid JSON object that lists one image asset.
DataTexts == {"d1"}
\* game_data text that json.loads rejects.
BadData == "bad"
AssetBytes == {"a1"}
\* Diagnostics of the TypeScript compiler ("" is success).
CompileErrors == {"e1", "e2"}
\* The newline-joined modification requests / questions of a classification.
RequestText == "r1"
QuestionText == "q1"

VARIABLES
    \* ---- the project directory on disk -------------------------------
    dirExists,      \* GAME_DIR(game_name) exists
    code,           \* content of game.ts ("" = absent)
    data,           \* content of data.json ("" = absent)
    asset,          \* content of the asset file ("" = absent)
    log,            \* archive/change_log.json: the version records, with
                    \* each version's snapshot of the project files
    cur,            \* archive/change_log.json: the current-version pointer
    chat,           \* chat.json: sequence of <<speaker, text>>
    \* ---- the handler in progress and the last response ---------------
    pc,             \* position of the running handler: "idle" = none,
                    \* "done" = it has returned and its response is
                    \* on the way to the client
    status,         \* status of the response ("none" while there is none)
    reply,          \* reply of the response: which return statement
                    \* produced it
    reply_text,     \* reply of the response: its text, as the sequence
                    \* of the pieces it is concatenated from
    \* ---- locals of process_code --------------------------------------
    Modification_Requests,
    Questions,
    Inappropriate,
    is_first_created,
    message,
    q_msg,
    game_code,
    game_data,
    error,
    success,
    fail_message,
    i,              \* loop index (all three loops use `i`)
    \* ---- parameters and locals of modify_code ------------------------
    request,        \* the `request` argument of the running call
    question,       \* the `question` argument of the running call
    resp_code,      \* game_code parsed from the LLM response
    resp_data,      \* game_data parsed from the LLM response
    \* ---- history (observers, never read by the handlers) --------------
    attempts,       \* modify_code invocations of the running request
    lastReturn,     \* what its last modify_code invocation did:
                    \* <<"none", "">>, <<"raised", exception text>> or
                    \* <<"returned", error>>
    lastRestore,    \* <<version, [files after it], n>> when the last n
                    \* requests (n counted up to 2) were successful
                    \* restores of `version`; <<version, NoFiles, 0>> when
                    \* the last request was a failed restore of
                    \* `version`; else NoRestore
    lastRaise,      \* text of the exception that the latest
                    \* classification or question call of the running
                    \* request raised
                    \* ("" when there was no call or it did not raise)
    started,        \* <<"process_code", chat log when the request came
                    \* in>> while a process_code request is running or
                    \* its response is on the way, else NotStarted
    \* ---- a call of a function that is followed on its own ------------
    textCall        \* a text function or the static-file handler:
                    \* [fn, src, arg, ret, done], the function, the text
                    \* its argument was built from, its argument, its
                    \* result, and whether it has run; an image function:
                    \* its name, its position, its locals and its result

disk == <<dirExists, code, data, asset>>
store == <<log, cur>>
locals == <<Modification_Requests, Questions, Inappropriate,
            is_first_created,
            message, q_msg, game_code, game_data, error, success,
            fail_message, i, request, question, resp_code, resp_data>>
history == <<attempts, lastReturn, lastRestore>>
loopHistory == <<attempts, lastReturn>>
vars == <<dirExists, code, data, asset, log, cur, chat, pc, status, reply,
          reply_text, Modification_Requests, Questions, Inappropriate,
          is_first_created, message, q_msg, game_code, game_data, error,
          success, fail_message, i, request, question, resp_code,
          resp_data, attempts, lastReturn, lastRestore, lastRaise,
          started, textCall>>

(***************************************************************************)
(* Version store (snapshot_manager: create_version,                        *)
(* find_current_version_from_file, restore_version).  Its code is not      *)
(* among the sources; it is modelled from the specification, sections 3    *)
(* and 4.3.                                                                *)
(***************************************************************************)
ProjectFiles == [code |-> code, data |-> data, asset |-> asset]
NoFiles == [code |-> "", data |-> "", asset |-> ""]

VersionNames(l) == {l[k].name : k \in DOMAIN l}

VersionRecord(l, v) == l[CHOOSE k \in DOMAIN l : l[k].name = v]

\* The store derives a name that is not in the log yet.
NewVersionName(l) == Len(l) + 1

\* create_version(project_dir, parent_name, summary): the log after the call.
create_version_log(l, parent_name, summary, files) ==
    Append(l, [name |-> NewVersionName(l), parent |-> parent_name,
               summary |-> summary, snapshot |-> files])

\* Faulty variant: the pointer is left on the version before the new one.
create_version_cur_stale(l) == Len(l)

\* create_version: the current-version pointer after the call.
create_version_cur(l) == NewVersionName(l)

\* find_current_version_from_file(log_path): {version, parent}
find_current_version_from_file(l, c) ==
    IF l = <<>>
    THEN [version |-> None, parent |-> None]
    ELSE [version |-> c, parent |-> VersionRecord(l, c).parent]

\* restore_version(project_dir, version_name): TRUE iff it can restore.
restore_version_ok(l, version_name) == version_name \in VersionNames(l)

\* restore_version: the live project files after a successful call.
restore_version_files(l, version_name) ==
    VersionRecord(l, version_name).snapshot

\* Faulty variant: the snapshot is moved, not copied, into the project.
restore_version_log_moved(l, version_name) ==
    [k \in DOMAIN l |->
        IF l[k].name = version_name
        THEN [l[k] EXCEPT !.snapshot = NoFiles]
        ELSE l[k]]

\* restore_version: the log after a successful call (snapshots are
\* immutable, no record is added or edited).
restore_version_log(l, version_name) == l


(***************************************************************************)
(* Initial state: the project does not exist yet.                          *)
(***************************************************************************)
NoReturn == <<"none", "">>
NoRestore == <<None, NoFiles, 0>>
NotStarted == <<"none", <<>>>>

LocalsInit ==
    /\ Modification_Requests = <<>>
    /\ Questions = <<>>
    /\ Inappropriate = <<>>
    /\ is_first_created = FALSE
    /\ message = ""
    /\ q_msg = ""
    /\ game_code = ""
    /\ game_data = ""
    /\ error = ""
    /\ success = FALSE
    /\ fail_message = <<>>
    /\ i = 0
    /\ request = ""
    /\ question = ""
    /\ resp_code = ""
    /\ resp_data = ""

\* The locals of a handler die when it returns.
LocalsReset ==
    /\ Modification_Requests' = <<>>
    /\ Questions' = <<>>
    /\ Inappropriate' = <<>>
    /\ is_first_created' = FALSE
    /\ message' = ""
    /\ q_msg' = ""
    /\ game_code' = ""
    /\ game_data' = ""
    /\ error' = ""
    /\ success' = FALSE
    /\ fail_message' = <<>>
    /\ i' = 0
    /\ request' = ""
    /\ question' = ""
    /\ resp_code' = ""
    /\ resp_data' = ""

\* No text function is being followed.
NoTextCall ==
    [fn |-> "none", src |-> <<>>, arg |-> <<>>, ret |-> <<>>, done |-> FALSE]

\* No handler is running and none has run.
ServerInit ==
    /\ pc = "idle"
    /\ status = "none"
    /\ reply = "none"
    /\ reply_text = <<>>
    /\ LocalsInit
    /\ attempts = 0
    /\ lastReturn = NoReturn
    /\ lastRestore = NoRestore
    /\ lastRaise = ""
    /\ started = NotStarted

\* A project that does not exist yet.
ProjectInit ==
    /\ dirExists = FALSE
    /\ code = ""
    /\ data = ""
    /\ asset = ""
    /\ log = <<>>
    /\ cur = None
    /\ chat = <<>>
    /\ ServerInit

Init ==
    /\ ProjectInit
    /\ textCall = NoTextCall

\* The request text and the chat log of an earlier, successful
\* /process-code request.
EarlierRequest == "r0"
EarlierChat == <<<<"user", EarlierRequest>>, <<"bot", "generated">>>>

\* A project as one successful generation of game.ts left it: the file, its
\* version as the root and current version, and the two chat entries.
ExistingInit ==
    /\ dirExists = TRUE
    /\ code \in CodeTexts
    /\ data = ""
    /\ asset = ""
    /\ log = create_version_log(<<>>, None, EarlierRequest,
                                [code |-> code, data |-> "", asset |-> ""])
    /\ cur = create_version_cur(<<>>)
    /\ chat = EarlierChat
    /\ ServerInit
    /\ textCall = NoTextCall

\* The entries that the chat log has gained on top of EarlierChat, to
\* which MaxChat applies.
ChatGrowth(c) ==
    IF /\ Len(c) >= Len(EarlierChat)
       /\ SubSeq(c, 1, Len(EarlierChat)) = EarlierChat
    THEN Len(c) - Len(EarlierChat)
    ELSE Len(c)

\* Faulty variant: a request is taken up while a handler is running.
AcceptsAnytime(position) == TRUE

\* gemini.py:1527-1537 and the handlers' bodies: one worker process, whose
\* event loop takes up the next request when the running handler has
\* returned (no handler of the model awaits).
Accepts(position) == position = "idle"

\* Faulty variant: the entry is put in front of the log.
save_chat_in_front(c, speaker, text) == <<<<speaker, text>>>> \o c

\* save_chat(CHAT_PATH(game_name), speaker, text)
save_chat(c, speaker, text) == Append(c, <<speaker, text>>)

(***************************************************************************)
(* POST /restore-version                                                   *)
(***************************************************************************)
RestoreInputs == 0 .. (MaxVersions + 1)

\* Faulty variant: the result of restore_version is ignored.
RestoreResponseAlwaysOk(restore_success) == <<"success", "restored">>

\* gemini.py:848-858: <<status, reply>> for the result of restore_version.
RestoreResponse(restore_success) ==
    IF restore_success
    THEN <<"success", "restored">>
    ELSE <<"error", "restore failed">>

restore_version_request(version_to_restore) ==
    /\ Accepts(pc)
    /\ IF version_to_restore = None
       THEN \* "if not version_to_restore": 400
            /\ status' = "error"
            /\ reply' = "version missing"
            /\ reply_text' = <<"version missing">>
            /\ lastRestore' = NoRestore
            /\ UNCHANGED <<disk, store>>
       ELSE IF restore_version_ok(log, version_to_restore)
       THEN /\ code' = restore_version_files(log, version_to_restore).code
            /\ data' = restore_version_files(log, version_to_restore).data
            /\ asset' = restore_version_files(log, version_to_restore).asset
            /\ log' = restore_version_log(log, version_to_restore)
            /\ cur' = version_to_restore
            /\ status' = RestoreResponse(TRUE)[1]
            /\ reply' = RestoreResponse(TRUE)[2]
            /\ reply_text' = <<RestoreResponse(TRUE)[2]>>
            /\ lastRestore' =
                   <<version_to_restore,
                     restore_version_files(log, version_to_restore),
                     IF lastRestore[1] = version_to_restore
                        /\ lastRestore[3] >= 1
                     THEN 2 ELSE 1>>
            /\ UNCHANGED dirExists
       ELSE /\ status' = RestoreResponse(FALSE)[1]
            /\ reply' = RestoreResponse(FALSE)[2]
            /\ reply_text' = <<RestoreResponse(FALSE)[2]>>
            /\ lastRestore' = <<version_to_restore, NoFiles, 0>>
            /\ UNCHANGED <<disk, store>>
    /\ pc' = "done"
    /\ UNCHANGED <<chat, locals, loopHistory>>
    /\ UNCHANGED <<started, textCall, lastRaise>>

(***************************************************************************)
(* POST /revert                                                            *)
(***************************************************************************)
\* Faulty variant: a root is reverted to itself.
RevertTargetOrSelf(version_info) ==
    IF version_info.parent = None
    THEN version_info.version
    ELSE version_info.parent

\* Faulty variant: the current version is restored, not its parent.
RevertTargetCurrent(version_info) == version_info.version

\* parent_version = version_info.get("parent")
RevertTarget(version_info) == version_info.parent

revert_code ==
    /\ Accepts(pc)
    /\ LET version_info == find_current_version_from_file(log, cur)
           parent_version == RevertTarget(version_info)
       IN IF restore_version_ok(log, parent_version)
          THEN /\ ChatGrowth(chat) < MaxChat
               /\ code' = restore_version_files(log, parent_version).code
               /\ data' = restore_version_files(log, parent_version).data
               /\ asset' = restore_version_files(log, parent_version).asset
               /\ log' = restore_version_log(log, parent_version)
               /\ cur' = parent_version
               /\ chat' = save_chat(chat, "bot", "reverted")
               /\ status' = "success"
               /\ reply' = "reverted"
               /\ reply_text' = <<"reverted">>
               /\ UNCHANGED dirExists
          ELSE /\ status' = "success"
               /\ reply' = "nothing to revert"
               /\ reply_text' = <<"nothing to revert">>
               /\ UNCHANGED <<disk, store, chat>>
    /\ pc' = "done"
    /\ lastRestore' = NoRestore
    /\ UNCHANGED <<locals, loopHistory>>
    /\ UNCHANGED <<started, textCall, lastRaise>>

(***************************************************************************)
(* POST /data-update                                                       *)
(***************************************************************************)
\* Faulty variant: the parent named is the version about to be created.
NextVersionAsParent(version_info) == version_info.version + 1

\* current_ver = version_info.get("version")
CurrentVersionAsParent(version_info) == version_info.version

process_chat_data(update_data) ==
    /\ Accepts(pc)
    /\ IF ~dirExists
       THEN \* open(DATA_PATH, 'w') raises: the directory is missing
            /\ status' = "error"
            /\ reply' = "exception"
            /\ reply_text' = <<"exception">>
            /\ UNCHANGED <<disk, store>>
       ELSE /\ Len(log) < MaxVersions
            /\ data' = update_data
            /\ LET version_info == find_current_version_from_file(log, cur)
                   current_ver == CurrentVersionAsParent(version_info)
               IN /\ log' = create_version_log(log, current_ver, "data update",
                                [code |-> code, data |-> update_data,
                                 asset |-> asset])
                  /\ cur' = create_version_cur(log)
            /\ status' = "success"
            /\ reply' = "data updated"
            /\ reply_text' = <<"data updated">>
            /\ UNCHANGED <<dirExists, code, asset>>
    /\ pc' = "done"
    /\ lastRestore' = NoRestore
    /\ UNCHANGED <<chat, locals, loopHistory>>
    /\ UNCHANGED <<started, textCall, lastRaise>>

(***************************************************************************)
(* POST /replace-asset                                                     *)
(***************************************************************************)
replace_asset(file, converts) ==
    /\ Accepts(pc)
    /\ dirExists' = TRUE                     \* assets_dir.mkdir(parents=True)
    /\ IF converts
       THEN /\ Len(log) < MaxVersions
            /\ asset' = file
            /\ LET version_info == find_current_version_from_file(log, cur)
                   current_ver == CurrentVersionAsParent(version_info)
               IN /\ log' = create_version_log(log, current_ver,
                                "asset replaced",
                                [code |-> code, data |-> data, asset |-> file])
                  /\ cur' = create_version_cur(log)
            /\ status' = "success"
            /\ reply' = "asset replaced"
            /\ reply_text' = <<"asset replaced">>
       ELSE \* Image.open / copy raised: HTTP 500, nothing written
            /\ status' = "error"
            /\ reply' = "convert failed"
            /\ reply_text' = <<"convert failed">>
            /\ UNCHANGED <<asset, log, cur>>
    /\ pc' = "done"
    /\ lastRestore' = NoRestore
    /\ UNCHANGED <<code, data, chat, locals, loopHistory>>
    /\ UNCHANGED <<started, textCall, lastRaise>>


(***************************************************************************)
(* POST /process-code: classification stage (gemini.py:626-689)            *)
(***************************************************************************)
RequestLists == {<<>>, <<RequestText>>}
QuestionLists == {<<>>, <<QuestionText>>}
InappropriateLists == {<<>>, <<"x1", "x2">>}
\* str(e) of the exceptions a classification call can raise.
ClassifyExceptions == {"ce1", "ce2"}

\* "\n".join(list) for the lists of the model (at most one element).
JoinLines(list) == IF list = <<>> THEN "" ELSE list[1]

user_requests == JoinLines(Modification_Requests)
user_question == JoinLines(Questions)

\* A text is the sequence of the pieces it is concatenated from; \o is +.
\* sep.join(lines) for a sequence of texts.
RECURSIVE JoinTexts(_, _)
JoinTexts(lines, sep) ==
    IF lines = <<>> THEN <<>>
    ELSE IF Len(lines) = 1 THEN lines[1]
    ELSE lines[1] \o <<sep>> \o JoinTexts(Tail(lines), sep)

\* gemini.py:645, 732, 790: the f-string of an except branch.
FailMessage(e) == <<"error: ", e>>

\* gemini.py:666: the f-string of one rejection line.
formatted_line(item) == <<"sorry, '", item, "' cannot be helped with">>

\* Faulty variant: only the first item is answered.
Inappropriate_answer_first(I) ==
    IF Len(I) > 0 THEN <<"\n\n">> \o formatted_line(I[1]) ELSE <<>>

\* gemini.py:662-673
Inappropriate_answer(I) ==
    IF Len(I) > 0
    THEN <<"\n\n">> \o
         JoinTexts([k \in 1 .. Len(I) |-> formatted_line(I[k])], "\n")
    ELSE <<>>

\* gemini.py:688
devide_result(requests, questions, I) ==
    <<"requests:\n", requests, "\nquestions:\n", questions,
      "\ninappropriate:\n">> \o Inappropriate_answer(I) \o <<"\n">>

\* gemini.py:694: the acknowledgement when nothing is actionable.
AcknowledgeReply(M, Q, I) ==
    devide_result(JoinLines(M), JoinLines(Q), I) \o Inappropriate_answer(I)
        \o <<"\n\nhow can I help?">>

\* gemini.py:736, 745, 804, 813: devide_result + body + "\n\n" +
\* Inappropriate_answer, from the locals of the running request.
ReplyWith(body) ==
    devide_result(user_requests, user_question, Inappropriate) \o body
        \o <<"\n\n">> \o Inappropriate_answer(Inappropriate)

genLocals == <<is_first_created, message, q_msg, game_code, game_data,
               error, success, request, question, resp_code, resp_data>>

\* process_code ends: it returns a response, or an exception leaves it.
Return(st, rp, text) ==
    /\ pc' = "done"
    /\ status' = st
    /\ reply' = rp
    /\ reply_text' = text

StartProcessCode ==
    /\ Accepts(pc)
    /\ Len(log) < MaxVersions
    /\ ChatGrowth(chat) + 2 <= MaxChat
    /\ pc' = "classify"
    /\ lastRestore' = NoRestore
    /\ started' = <<"process_code", chat>>
    /\ UNCHANGED lastRaise
    /\ UNCHANGED <<disk, store, chat, status, reply, reply_text, locals,
                   loopHistory>>
    /\ UNCHANGED textCall

\* Faulty variant: range(MAX_ATTEMPTS + 1).
ClassifyMoreAttemptsOffByOne(k) == k + 1 <= MAX_ATTEMPTS

\* gemini.py:633: for i in range(MAX_ATTEMPTS): is there an iteration
\* after iteration k?
ClassifyMoreAttempts(k) == k + 1 < MAX_ATTEMPTS

\* gemini.py:633-655: the classification call raises e.
ClassifyRaises(e) ==
    /\ pc = "classify"
    /\ fail_message' = FailMessage(e)
    /\ lastRaise' = e
    /\ IF ClassifyMoreAttempts(i)
       THEN /\ i' = i + 1
            /\ UNCHANGED <<chat, pc, status, reply, reply_text>>
       ELSE /\ chat' = save_chat(chat, "bot", "classification failed")
            /\ Return("fail", "classification failed", fail_message')
            /\ UNCHANGED i
    /\ UNCHANGED <<Modification_Requests, Questions, Inappropriate,
                   genLocals>>
    /\ UNCHANGED <<disk, store, history>>
    /\ UNCHANGED <<started, textCall>>

\* gemini.py:657-660: the response is not the expected JSON object; the
\* exception of json.loads / the KeyError is not caught.
ClassifyUnparsable ==
    /\ pc = "classify"
    /\ Return("error", "exception", <<"exception">>)
    /\ lastRaise' = ""
    /\ UNCHANGED <<disk, store, chat, locals, history>>
    /\ UNCHANGED <<started, textCall>>

\* Faulty variant: questions alone start a generation.
BranchQuestionsGenerate(M, Q, I) ==
    IF Len(M) = 0 /\ Len(Q) = 0 THEN "acknowledge" ELSE "generate"

\* Faulty variant: disallowed items suppress the classified lists.
BranchUnlessInappropriate(M, Q, I) ==
    IF Len(I) > 0 THEN "acknowledge"
    ELSE IF Len(M) = 0
    THEN IF Len(Q) = 0 THEN "acknowledge" ELSE "qna"
    ELSE "generate"

\* gemini.py:691, 693, 701, 753: the branch process_code takes.
Branch(M, Q, I) ==
    IF Len(M) = 0
    THEN IF Len(Q) = 0 THEN "acknowledge" ELSE "qna"
    ELSE "generate"

\* gemini.py:657-764: the response parses; branch on the classified lists.
ClassifyReturns(M, Q, I) ==
    /\ pc = "classify"
    /\ Modification_Requests' = M
    /\ Questions' = Q
    /\ Inappropriate' = I
    /\ CASE Branch(M, Q, I) = "acknowledge" ->
                 /\ chat' = save_chat(chat, "user", "message")
                 /\ Return("success", "nothing actionable",
                           AcknowledgeReply(M, Q, I))
                 /\ UNCHANGED <<fail_message, i, genLocals>>
         [] Branch(M, Q, I) = "qna" ->
                 /\ chat' = save_chat(chat, "user", "message")
                 /\ pc' = "qna"
                 /\ i' = 0
                 /\ UNCHANGED <<status, reply, reply_text, fail_message,
                                genLocals>>
         [] Branch(M, Q, I) = "generate" ->
                 /\ is_first_created' = (code = "")
                 /\ message' = JoinLines(M)
                 /\ q_msg' = JoinLines(Q)
                 /\ chat' = save_chat(chat, "user", JoinLines(M))
                 /\ fail_message' = <<>>
                 /\ i' = 0
                 /\ pc' = "call"
                 /\ UNCHANGED <<status, reply, reply_text, game_code,
                                game_data, error, success, request,
                                question, resp_code, resp_data>>
    /\ lastRaise' = ""
    /\ UNCHANGED <<disk, store, history>>
    /\ UNCHANGED <<started, textCall>>

(***************************************************************************)
(* POST /process-code: question-only path (gemini.py:702-752)              *)
(***************************************************************************)
\* str(e) of the exceptions a question call can raise.
QnaExceptions == {"qe1", "qe2"}

\* Faulty variant: range(MAX_ATTEMPTS + 1).
QnaMoreAttemptsOffByOne(k) == k + 1 <= MAX_ATTEMPTS

\* gemini.py:718: for i in range(MAX_ATTEMPTS): is there an iteration
\* after iteration k?
QnaMoreAttempts(k) == k + 1 < MAX_ATTEMPTS

\* gemini.py:718-743: the question call raises e.
QnaRaises(e) ==
    /\ pc = "qna"
    /\ fail_message' = FailMessage(e)
    /\ lastRaise' = e
    /\ IF QnaMoreAttempts(i)
       THEN /\ i' = i + 1
            /\ UNCHANGED <<chat, pc, status, reply, reply_text>>
       ELSE /\ chat' = save_chat(chat, "bot", "question failed")
            /\ Return("fail", "question failed", ReplyWith(fail_message'))
            /\ UNCHANGED i
    /\ UNCHANGED <<Modification_Requests, Questions, Inappropriate,
                   genLocals>>
    /\ UNCHANGED <<disk, store, history>>
    /\ UNCHANGED <<started, textCall>>

\* gemini.py:721-752: the question call returns and its answer is parsed.
QnaReturns ==
    /\ pc = "qna"
    /\ chat' = save_chat(chat, "bot", "answer")
    /\ Return("success", "answer", ReplyWith(<<"answer">>))
    /\ lastRaise' = ""
    /\ UNCHANGED <<disk, store, locals, history>>
    /\ UNCHANGED <<started, textCall>>

(***************************************************************************)
(* POST /process-code: generation retry loop (gemini.py:770-793) around    *)
(* modify_code (gemini.py:465-586)                                         *)
(***************************************************************************)
GeneratedCodes == {""} \cup CodeTexts
GeneratedData == {""} \cup DataTexts \cup {BadData}
CompilerOutputs == {""} \cup CompileErrors

\* Faulty variant: range(MAX_ATTEMPTS + 1).
MoreAttemptsOffByOne(k) == k + 1 <= MAX_ATTEMPTS

\* for i in range(MAX_ATTEMPTS): is there an iteration after iteration k?
MoreAttempts(k) == k + 1 < MAX_ATTEMPTS

\* Faulty variant: the request is not replaced by the error.
NextMessageStale(msg, err) == msg

\* gemini.py:784: message = error
NextMessage(msg, err) == err

\* Faulty variant: the question is kept for the later attempts.
NextQuestionKept(q) == q

\* gemini.py:793: q_msg = ""
NextQuestion(q) == ""

\* gemini.py:486-489: makePTP when the source is absent, else modifyPTP.
PromptTemplate(original_code) ==
    IF original_code = "" THEN "create" ELSE "modify"

\* gemini.py:456-461
validate_json(json_str) == IF json_str = BadData THEN "invalid json" ELSE ""

\* gemini.py:552-554: the validation error of the generated data.
ValidationError(gd) == IF gd # "" THEN validate_json(gd) ELSE ""

\* Faulty variant: json.loads accepts every text.
json_loads_lenient(json_str) == [raised |-> FALSE, text |-> ""]

\* gemini.py:556: json.loads(game_data) raises JSONDecodeError on a text
\* that is not well-formed JSON; str(e) starts with the message that
\* validate_json returns.
json_loads(json_str) ==
    IF json_str = BadData
    THEN [raised |-> TRUE, text |-> "invalid json"]
    ELSE [raised |-> FALSE, text |-> ""]

\* gemini.py:581-584: the error that modify_code returns.
ModifyCodeError(validation, tsc) ==
    IF validation = "" THEN tsc ELSE validation \o "\n" \o tsc

\* check_and_create_images_with_text: the asset file after the call,
\* given whether a file was written for a listed image that did not
\* exist (fetched or placeholder; when the placeholder fails as well the
\* image is left without a file).  An existing file is never overwritten.
MaterializedAsset(json_data, old, written) ==
    IF json_data \in DataTexts /\ old = "" /\ written THEN "a1" ELSE old

\* gemini.py:789-793: modify_code raised; the except branch and the tail
\* of the loop body.
AttemptRaised(e) ==
    /\ fail_message' = FailMessage(e)
    /\ q_msg' = NextQuestion(q_msg)
    /\ lastReturn' = <<"raised", e>>
    /\ request' = ""
    /\ question' = ""
    /\ resp_code' = ""
    /\ resp_data' = ""
    /\ IF MoreAttempts(i)
       THEN i' = i + 1 /\ pc' = "call"
       ELSE i' = i /\ pc' = "finish"
    /\ UNCHANGED <<Modification_Requests, Questions, Inappropriate,
                   is_first_created, message, game_code, game_data, error,
                   success>>

\* gemini.py:774 and 465-470: modify_code(message, q_msg, game_name) is
\* entered.
ModifyCodeCall ==
    /\ pc = "call"
    /\ request' = message
    /\ question' = q_msg
    /\ dirExists' = TRUE                    \* create_project_structure
    /\ attempts' = attempts + 1
    /\ pc' = "llm"
    /\ UNCHANGED <<code, data, asset, store, chat, status, reply, reply_text,
                   Modification_Requests, Questions, Inappropriate,
                   is_first_created, message, q_msg, game_code, game_data,
                   error, success, fail_message, i, resp_code, resp_data,
                   lastReturn, lastRestore>>
    /\ UNCHANGED <<started, textCall, lastRaise>>

\* gemini.py:472-502: the prompt is built and the LLM call raises.
ModifyCodeLLMRaises ==
    /\ pc = "llm"
    /\ AttemptRaised("exception")
    /\ UNCHANGED <<disk, store, chat, status, reply, reply_text, attempts,
                   lastRestore>>
    /\ UNCHANGED <<started, textCall, lastRaise>>

\* gemini.py:472-509: the prompt is built, the LLM answers and the
\* response is parsed.
ModifyCodeLLMReturns(gc, gd) ==
    /\ pc = "llm"
    /\ resp_code' = gc
    /\ resp_data' = gd
    /\ pc' = "write_code"
    /\ UNCHANGED <<disk, store, chat, status, reply, reply_text,
                   Modification_Requests, Questions, Inappropriate,
                   is_first_created, message, q_msg, game_code, game_data,
                   error, success, fail_message, i, request, question,
                   history>>
    /\ UNCHANGED <<started, textCall, lastRaise>>

\* gemini.py:537-548
WriteCode ==
    /\ pc = "write_code"
    /\ code' = IF resp_code # "" THEN resp_code ELSE code
    /\ pc' = "write_data"
    /\ UNCHANGED <<dirExists, data, asset, store, chat, status, reply,
                   reply_text, locals, history>>
    /\ UNCHANGED <<started, textCall, lastRaise>>

\* gemini.py:552-571.  validate_json returns the message of an invalid
\* text, but json.loads on the next line raises on the same text: the
\* attempt ends in the except branch of the loop, before the assets are
\* made and before data.json is written.
WriteData ==
    /\ pc = "write_data"
    /\ IF resp_data = ""
       THEN /\ pc' = "compile"
            /\ UNCHANGED <<data, asset, locals, lastReturn>>
       ELSE IF json_loads(resp_data).raised
       THEN /\ AttemptRaised(json_loads(resp_data).text)
            /\ UNCHANGED <<data, asset>>
       ELSE /\ \E written \in BOOLEAN :
                 asset' = MaterializedAsset(resp_data, asset, written)
            /\ data' = resp_data
            /\ pc' = "compile"
            /\ UNCHANGED <<locals, lastReturn>>
    /\ UNCHANGED <<dirExists, code, store, chat, status, reply, reply_text,
                   attempts, lastRestore>>
    /\ UNCHANGED <<started, textCall, lastRaise>>

\* gemini.py:581-586 and 774-793: the compiler check, the return of
\* modify_code and the rest of the loop body.
CompileCheck(tsc) ==
    /\ pc = "compile"
    /\ error' = ModifyCodeError(ValidationError(resp_data), tsc)
    /\ game_code' = resp_code
    /\ game_data' = resp_data
    /\ lastReturn' = <<"returned", error'>>
    /\ request' = ""
    /\ question' = ""
    /\ resp_code' = ""
    /\ resp_data' = ""
    /\ IF error' = ""
       THEN /\ success' = TRUE
            /\ pc' = "finish"
            /\ UNCHANGED <<message, q_msg, i>>
       ELSE /\ message' = NextMessage(message, error')
            /\ q_msg' = NextQuestion(q_msg)
            /\ IF MoreAttempts(i)
               THEN i' = i + 1 /\ pc' = "call"
               ELSE i' = i /\ pc' = "finish"
            /\ UNCHANGED success
    /\ UNCHANGED <<disk, store, chat, status, reply, reply_text,
                   Modification_Requests, Questions, Inappropriate,
                   is_first_created, fail_message, attempts, lastRestore>>
    /\ UNCHANGED <<started, textCall, lastRaise>>

(***************************************************************************)
(* POST /process-code: after the loop (gemini.py:795-820)                  *)
(***************************************************************************)
\* Faulty variant: the success branch is taken whatever the loop did.
LoopSucceededAlways(succ) == TRUE

\* gemini.py:795: if success:
LoopSucceeded(succ) == succ

\* Faulty variant: a version is created even when nothing was generated.
ShouldSnapshotAlways(gc, gd) == TRUE

\* gemini.py:796
ShouldSnapshot(gc, gd) == gc # "" \/ gd # ""

\* gemini.py:798, 802: summary=user_requests
VersionSummary(requests, msg) == requests

\* gemini.py:797-802: the parent handed to create_version.
VersionParent(first_created, version_info) ==
    IF first_created THEN None ELSE CurrentVersionAsParent(version_info)

Finish ==
    /\ pc = "finish"
    /\ IF LoopSucceeded(success)
       THEN /\ IF ShouldSnapshot(game_code, game_data)
               THEN LET version_info ==
                            find_current_version_from_file(log, cur)
                        parent == VersionParent(is_first_created,
                                                version_info)
                    IN /\ log' = create_version_log(log, parent,
                                    VersionSummary(user_requests, message),
                                    ProjectFiles)
                       /\ cur' = create_version_cur(log)
               ELSE UNCHANGED <<log, cur>>
            /\ chat' = save_chat(chat, "bot", "generated")
            /\ Return("success", "generated",
                      ReplyWith(<<"description_total">>))
       ELSE /\ chat' = save_chat(chat, "bot", "generation failed")
            /\ Return("fail", "generation failed", ReplyWith(fail_message))
            /\ UNCHANGED <<log, cur>>
    /\ UNCHANGED <<disk, locals, history>>
    /\ UNCHANGED <<started, textCall, lastRaise>>

(***************************************************************************)
(* The response leaves the server; the handler's locals are gone.          *)
(***************************************************************************)
Respond ==
    /\ pc = "done"
    /\ pc' = "idle"
    /\ status' = "none"
    /\ reply' = "none"
    /\ reply_text' = <<>>
    /\ LocalsReset
    /\ attempts' = 0
    /\ lastReturn' = NoReturn
    /\ lastRaise' = ""
    /\ started' = NotStarted
    /\ UNCHANGED <<disk, store, chat, lastRestore>>
    /\ UNCHANGED textCall

(***************************************************************************)
(* The specification                                                       *)
(***************************************************************************)
Next ==
    \/ StartProcessCode
    \/ \E e \in ClassifyExceptions : ClassifyRaises(e)
    \/ ClassifyUnparsable
    \/ \E M \in RequestLists, Q \in QuestionLists, I \in InappropriateLists :
          ClassifyReturns(M, Q, I)
    \/ \E e \in QnaExceptions : QnaRaises(e)
    \/ QnaReturns
    \/ ModifyCodeCall
    \/ ModifyCodeLLMRaises
    \/ \E gc \in GeneratedCodes, gd \in GeneratedData :
          ModifyCodeLLMReturns(gc, gd)
    \/ WriteCode
    \/ WriteData
    \/ \E tsc \in CompilerOutputs : CompileCheck(tsc)
    \/ Finish
    \/ \E v \in RestoreInputs : restore_version_request(v)
    \/ revert_code
    \/ \E d \in DataTexts : process_chat_data(d)
    \/ \E a \in AssetBytes, ok \in BOOLEAN : replace_asset(a, ok)
    \/ Respond

Spec == Init /\ [][Next]_vars

\* The steps of a running process_code request.  Each is a piece of
\* straight-line code between two external calls; the handler runs them
\* to completion provided every external call returns or raises.
ProcessCodeStep ==
    \/ \E e \in ClassifyExceptions : ClassifyRaises(e)
    \/ ClassifyUnparsable
    \/ \E M \in RequestLists, Q \in QuestionLists, I \in InappropriateLists :
          ClassifyReturns(M, Q, I)
    \/ \E e \in QnaExceptions : QnaRaises(e)
    \/ QnaReturns
    \/ ModifyCodeCall
    \/ ModifyCodeLLMRaises
    \/ \E gc \in GeneratedCodes, gd \in GeneratedData :
          ModifyCodeLLMReturns(gc, gd)
    \/ WriteCode
    \/ WriteData
    \/ \E tsc \in CompilerOutputs : CompileCheck(tsc)
    \/ Finish

\* The same server on a project that exists.
ExistingSpec == ExistingInit /\ [][Next]_vars

FairSpec == Spec /\ WF_vars(ProcessCodeStep)

(***************************************************************************)
(* Properties of the generation retry loop                                 *)
(***************************************************************************)
\* A modify_code invocation is running.
InModifyCode == pc \in {"llm", "write_code", "write_data", "compile"}

\* The loop of gemini.py:772-793 is running.
InGenerationLoop == pc = "call" \/ InModifyCode

\* The generation loop is over and process_code has answered.
LoopOutcome == pc = "done" /\ reply \in {"generated", "generation failed"}

C1_BoundedLoop ==
    /\ attempts <= MAX_ATTEMPTS
    /\ lastReturn = <<"returned", "">> => pc \in {"finish", "done"} /\ success
    /\ pc = "finish" =>
           \/ success /\ lastReturn = <<"returned", "">>
           \/ ~success /\ attempts = MAX_ATTEMPTS

\* C1: in the modification branch, whatever each attempt does (the LLM call
\* raises, the data is invalid, the compiler reports an error, the attempt
\* succeeds), modify_code is invoked at most MAX_ATTEMPTS times, no
\* invocation follows the first one that returns the empty error, and the
\* request reaches a terminal outcome: the loop succeeded or the attempts
\* are exhausted.
C1_RetryLoopTerminates ==
    /\ []C1_BoundedLoop
    /\ InGenerationLoop ~> LoopOutcome

\* An exhausted loop whose attempts ended in different ways.
C1_ExhaustedMixed ==
    /\ pc = "finish"
    /\ ~success
    /\ attempts = MAX_ATTEMPTS
    /\ fail_message = FailMessage("exception")
    /\ lastReturn = <<"returned", "e1">>

\* C2: when an attempt before the last returns a non-empty error, the
\* request text of the next modify_code invocation is that error; and when
\* the last attempt returns a non-empty error, the error the loop ends with
\* is that attempt's error.
C2_ErrorFeedsNextAttempt ==
    /\ InModifyCode /\ lastReturn[1] = "returned" =>
           /\ lastReturn[2] # ""
           /\ request = lastReturn[2]
    /\ pc = "finish" /\ ~success /\ lastReturn[1] = "returned" =>
           /\ attempts = MAX_ATTEMPTS
           /\ lastReturn[2] # ""
           /\ error = lastReturn[2]
           /\ message = lastReturn[2]

\* The third invocation runs on the error the second one returned.
C2_ThirdAttemptOnError ==
    /\ pc = "llm"
    /\ attempts = 3
    /\ lastReturn = <<"returned", "e2">>
    /\ request = "e2"
    /\ user_requests = RequestText

(***************************************************************************)
(* Properties of version creation by process_code                          *)
(***************************************************************************)
\* C3: when the loop succeeded with game_code and game_data both empty,
\* the rest of process_code creates no version and leaves the
\* current-version pointer where it was.
C3_EmptySuccessNoVersion ==
    [][pc = "finish" /\ success /\ game_code = "" /\ game_data = ""
           => log' = log /\ cur' = cur]_vars

\* A project with history answered a successful, empty generation.
C3_EmptySuccessAnswered ==
    /\ pc = "done"
    /\ reply = "generated"
    /\ game_code = ""
    /\ game_data = ""
    /\ log # <<>>

\* C4: no step of process_code other than the one after a successful loop
\* touches the version store: a request that exhausts its attempts, fails
\* in classification, or takes the question-only or nothing-actionable
\* branch appends no version and does not move the pointer.
C4_NoVersionWithoutSuccess ==
    [][pc \notin {"idle", "done"} /\ ~(pc = "finish" /\ success)
           => UNCHANGED <<log, cur>>]_vars

\* An exhausted request that did get code from an earlier attempt.
C4_ExhaustedWithCode ==
    /\ pc = "done"
    /\ status = "fail"
    /\ reply = "generation failed"
    /\ game_code \in CodeTexts
    /\ code \in CodeTexts

\* C5: on a project that has a version history, a successful loop with
\* non-empty game_code or game_data appends exactly one version whose
\* summary is the joined modification requests and whose parent is the
\* pointer held before the request, and moves the pointer to it.
C5_SuccessAppendsChildOfCurrent ==
    [][pc = "finish" /\ success /\ log # <<>>
       /\ (game_code # "" \/ game_data # "")
           => /\ Len(log') = Len(log) + 1
              /\ SubSeq(log', 1, Len(log)) = log
              /\ log'[Len(log')].summary = user_requests
              /\ log'[Len(log')].parent = cur
              /\ cur' = log'[Len(log')].name]_vars

(***************************************************************************)
(* Properties of the version graph                                         *)
(***************************************************************************)
RECURSIVE ParentWalk(_, _, _)
\* Where n steps up the parent relation lead from v: None once a root has
\* been passed.
ParentWalk(l, v, n) ==
    IF v = None \/ n = 0 \/ v \notin VersionNames(l)
    THEN v
    ELSE ParentWalk(l, VersionRecord(l, v).parent, n - 1)

C7_PointerInLog == log # <<>> => cur \in VersionNames(log)

\* A restore of an unknown name failed while the pointer was on an older
\* version.
C7_FailedRestoreOnOldVersion ==
    /\ pc = "done"
    /\ reply = "restore failed"
    /\ Len(log) >= 2
    /\ cur = 1

(***************************************************************************)
(* Properties of revert and restore                                        *)
(***************************************************************************)
\* A step that is a whole /revert request.
RevertStep ==
    pc = "idle" /\ pc' = "done" /\ reply' \in {"reverted", "nothing to revert"}

\* C8: when the current version has a parent P, a revert leaves the
\* pointer on P and the live files equal to P's snapshot, and neither
\* appends nor edits a version record.
C8_RevertRestoresParent ==
    [][RevertStep /\ log # <<>> /\ VersionRecord(log, cur).parent # None
           => /\ reply' = "reverted"
              /\ cur' = VersionRecord(log, cur).parent
              /\ ProjectFiles' =
                     VersionRecord(log, VersionRecord(log, cur).parent).snapshot
              /\ log' = log]_vars

\* Two reverts walked from version 3 up to its grandparent.
C8_TwoRevertsUp ==
    /\ pc = "done"
    /\ reply = "reverted"
    /\ Len(log) = 3
    /\ log[3].parent = 2
    /\ log[2].parent = 1
    /\ cur = 1
    /\ chat = <<<<"bot", "reverted">>, <<"bot", "reverted">>>>
    /\ ProjectFiles = log[1].snapshot
    /\ ProjectFiles # log[3].snapshot

\* C9: a revert on a root, or on a project without a log, answers "nothing
\* to revert" and changes neither the log, the pointer, the live files nor
\* the chat.
C9_RevertAtRootIsNoOp ==
    [][RevertStep /\ (log = <<>> \/ VersionRecord(log, cur).parent = None)
           => /\ reply' = "nothing to revert"
              /\ UNCHANGED <<log, cur, code, data, asset, chat>>]_vars

\* A revert was refused on the root that an earlier revert had reached.
C9_RefusedAtRoot ==
    /\ pc = "done"
    /\ reply = "nothing to revert"
    /\ Len(log) >= 2
    /\ cur = 1
    /\ chat = <<<<"bot", "reverted">>>>

RestoreStep ==
    /\ pc = "idle"
    /\ pc' = "done"
    /\ reply' \in {"restored", "restore failed", "version missing"}

NL == "\n"
BS == "\\"
\* The backtick character (written ^: a string of the module cannot hold a
\* backtick).
BT == "^"
\* The characters str.strip() removes, among those of the model.
Whitespace == {" ", NL}

\* s.find(p): the index of the first occurrence of p in s, -1 if none.
find(s, p) ==
    LET hits == {k \in 0 .. (Len(s) - Len(p)) :
                     SubSeq(s, k + 1, k + Len(p)) = p}
    IN IF hits = {} THEN -1 ELSE CHOOSE k \in hits : \A j \in hits : k <= j

\* The position a slice bound k denotes in a text of length n.
SliceIndex(n, k) ==
    IF k < 0
    THEN (IF k + n < 0 THEN 0 ELSE k + n)
    ELSE (IF k > n THEN n ELSE k)

\* s[a:b]
Slice(s, a, b) ==
    LET lo == SliceIndex(Len(s), a)
        hi == SliceIndex(Len(s), b)
    IN IF lo >= hi THEN <<>> ELSE SubSeq(s, lo + 1, hi)

RECURSIVE lstrip(_)
lstrip(s) ==
    IF s # <<>> /\ Head(s) \in Whitespace THEN lstrip(Tail(s)) ELSE s

RECURSIVE rstrip(_)
rstrip(s) ==
    IF s # <<>> /\ s[Len(s)] \in Whitespace
    THEN rstrip(SubSeq(s, 1, Len(s) - 1))
    ELSE s

strip(s) == rstrip(lstrip(s))

startswith(s, p) == Len(s) >= Len(p) /\ SubSeq(s, 1, Len(p)) = p

endswith(s, p) ==
    Len(s) >= Len(p) /\ SubSeq(s, Len(s) - Len(p) + 1, Len(s)) = p

RECURSIVE replace(_, _, _)
\* s.replace(old, new), old not empty.
replace(s, old, new) ==
    IF s = <<>>
    THEN <<>>
    ELSE IF startswith(s, old)
    THEN new \o replace(SubSeq(s, Len(old) + 1, Len(s)), old, new)
    ELSE <<Head(s)>> \o replace(Tail(s), old, new)

\* The triple backtick.
Fence == <<BT, BT, BT>>

\* gemini.py:117-156
remove_code_fences_safe(code_string) ==
    LET stripped == strip(code_string)
        fenced == startswith(stripped, Fence)
        stripped_string ==
            IF fenced THEN replace(stripped, <<BS, "n">>, <<NL>>) ELSE stripped
        first_newline_index == find(stripped_string, <<NL>>)
        content_start ==
            IF fenced
            THEN (IF first_newline_index # -1
                  THEN first_newline_index + 1
                  ELSE 3)
            ELSE 0
        processed_string ==
            Slice(stripped_string, content_start, Len(stripped_string))
        final_string == rstrip(processed_string)
    IN strip(IF endswith(final_string, Fence)
             THEN Slice(final_string, 0, -3)
             ELSE final_string)

\* "###CODE_START###"
CODE_START ==
    <<"#", "#", "#", "C", "O", "D", "E", "_", "S", "T", "A", "R", "T",
      "#", "#", "#">>

\* "###CODE_END###"
CODE_END ==
    <<"#", "#", "#", "C", "O", "D", "E", "_", "E", "N", "D", "#", "#",
      "#">>

\* "###DATA_START###"
DATA_START ==
    <<"#", "#", "#", "D", "A", "T", "A", "_", "S", "T", "A", "R", "T",
      "#", "#", "#">>

\* "###DATA_END###"
DATA_END ==
    <<"#", "#", "#", "D", "A", "T", "A", "_", "E", "N", "D", "#", "#",
      "#">>

\* "###ASSET_LIST_START###"
ASSET_LIST_START ==
    <<"#", "#", "#", "A", "S", "S", "E", "T", "_", "L", "I", "S", "T",
      "_", "S", "T", "A", "R", "T", "#", "#", "#">>

\* "###ASSET_LIST_END###"
ASSET_LIST_END ==
    <<"#", "#", "#", "A", "S", "S", "E", "T", "_", "L", "I", "S", "T",
      "_", "E", "N", "D", "#", "#", "#">>

\* "###DESCRIPTION_START###"
DESCRIPTION_START ==
    <<"#", "#", "#", "D", "E", "S", "C", "R", "I", "P", "T", "I", "O",
      "N", "_", "S", "T", "A", "R", "T", "#", "#", "#">>

\* "###DESCRIPTION_END###"
DESCRIPTION_END ==
    <<"#", "#", "#", "D", "E", "S", "C", "R", "I", "P", "T", "I", "O",
      "N", "_", "E", "N", "D", "#", "#", "#">>

\* gemini.py:386-388 and alike:
\* response_text[find(start) + len(start) : find(end)].strip()
ExtractField(response_text, start_marker, end_marker) ==
    strip(Slice(response_text,
                find(response_text, start_marker) + Len(start_marker),
                find(response_text, end_marker)))

\* gemini.py:382-411
parse_ai_code_response(response_text) ==
    [game_code |-> ExtractField(response_text, CODE_START, CODE_END),
     game_data |-> ExtractField(response_text, DATA_START, DATA_END),
     asset_list |->
         ExtractField(response_text, ASSET_LIST_START, ASSET_LIST_END),
     description |->
         ExtractField(response_text, DESCRIPTION_START, DESCRIPTION_END)]

(***************************************************************************)
(* The text functions applied to bounded sets of texts                     *)
(***************************************************************************)
\* Longest code string that is wrapped in a fence.
MaxText == 3

\* The characters of the code strings: a letter, the two kinds of white
\* space, a backslash, the letter n and a backtick.
CodeChars == {"a", " ", NL, BS, "n", BT}

TextsUpTo(chars, n) == UNION {[1 .. k -> chars] : k \in 0 .. n}

\* The code strings that contain no triple backtick.
CodeStrings == {S \in TextsUpTo(CodeChars, MaxText) : find(S, Fence) = -1}

\* The fence with the language tag ts, S on the following lines, and the
\* closing fence on a line of its own.
Fenced(S) == Fence \o <<"t", "s", NL>> \o S \o <<NL>> \o Fence

\* Text around and between the marked blocks of a response.
Paddings == {<<>>, <<NL>>, <<"a", " ">>}
\* Text between a start and an end marker.
Bodies == {<<>>, <<"a">>, <<" ", "a", NL>>, <<"a", " ", "a">>}

\* What follows the code block: padding, with or without a data block.
AfterCode ==
    Paddings \cup
    {p \o DATA_START \o b \o DATA_END \o q :
         p \in Paddings, b \in Bodies, q \in Paddings}

projectVars ==
    <<disk, store, chat, pc, status, reply, reply_text, locals, history,
      lastRaise, started>>

TextInit ==
    /\ ProjectInit
    /\ textCall \in
           {[fn |-> "remove_code_fences_safe", src |-> S, arg |-> Fenced(S),
             ret |-> <<>>, done |-> FALSE] : S \in CodeStrings}
           \cup
           {[fn |-> "parse_ai_code_response", src |-> b,
             arg |-> p \o CODE_START \o b \o CODE_END \o t,
             ret |-> <<>>, done |-> FALSE] :
                p \in Paddings, b \in Bodies, t \in AfterCode}

remove_code_fences_safe_call ==
    /\ textCall.fn = "remove_code_fences_safe"
    /\ ~textCall.done
    /\ textCall' = [textCall EXCEPT
                        !.ret = remove_code_fences_safe(textCall.arg),
                        !.done = TRUE]
    /\ UNCHANGED projectVars

parse_ai_code_response_call ==
    /\ textCall.fn = "parse_ai_code_response"
    /\ ~textCall.done
    /\ textCall' = [textCall EXCEPT
                        !.ret = parse_ai_code_response(textCall.arg),
                        !.done = TRUE]
    /\ UNCHANGED projectVars

TextNext ==
    \/ remove_code_fences_safe_call
    \/ parse_ai_code_response_call

TextSpec == TextInit /\ [][TextNext]_vars

\* C12: a response with a well-formed code block and without either data
\* marker parses to an empty game_data and to the trimmed text between the
\* code markers as game_code.
C12_MissingDataPairParsesEmpty ==
    /\ textCall.fn = "parse_ai_code_response"
    /\ textCall.done
    /\ find(textCall.arg, DATA_START) = -1
    /\ find(textCall.arg, DATA_END) = -1
    => /\ textCall.ret.game_data = <<>>
       /\ textCall.ret.game_code = strip(textCall.src)

\* C13: stripping the fence off a fenced code string that contains no
\* triple backtick gives back exactly the code string.
C13_FenceRoundTrip ==
    textCall.fn = "remove_code_fences_safe" /\ textCall.done
        => textCall.ret = textCall.src

(***************************************************************************)
(* Properties of the responses and chat entries of process_code            *)
(***************************************************************************)
\* process_code has ended; its response is on the way.
ProcessCodeEnded == pc = "done" /\ started[1] = "process_code"

\* The chat entries appended since the running request came in.
ChatAdded == SubSeq(chat, Len(started[2]) + 1, Len(chat))

\* How many of the entries are by the speaker.
EntriesBy(entries, speaker) ==
    Cardinality({k \in DOMAIN entries : entries[k][1] = speaker})

\* The replies of the branches in which process_code returns a response.
ReturnedReplies ==
    {"classification failed", "nothing actionable", "answer",
     "question failed", "generated", "generation failed"}

\* C14: in whichever branch process_code returns, it has appended exactly
\* one bot entry and exactly one user entry to the chat log.
C14_OneBotOneUserEntry ==
    ProcessCodeEnded /\ reply \in ReturnedReplies
        => /\ SubSeq(chat, 1, Len(started[2])) = started[2]
           /\ EntriesBy(ChatAdded, "bot") = 1
           /\ EntriesBy(ChatAdded, "user") = 1

\* C15: process_code always ends in a returned response; when the request
\* failed, the response has the failure status and the last chat entry is
\* the bot entry with the failure text.
C15_NoExceptionEscapes ==
    ProcessCodeEnded
        => /\ status \in {"success", "fail"}
           /\ status = "fail" =>
                  /\ chat # <<>>
                  /\ chat[Len(chat)] = <<"bot", reply>>

\* C17: a classification response that does not parse is a failed attempt
\* like a raising call: classification ends in a failure only when the
\* attempts are used up.
C17_UnparsableIsRetried ==
    [][pc = "classify" /\ pc' = "done" /\ status' \in {"fail", "error"}
           => i + 1 = MAX_ATTEMPTS]_vars

(***************************************************************************)
(* Claims about the classification stage and the reply                     *)
(***************************************************************************)
\* The pieces a text is made of.
Pieces(text) == {text[k] : k \in DOMAIN text}

\* `part` occurs in `text` as a contiguous run of pieces.
Contains(text, part) ==
    \E k \in 0 .. (Len(text) - Len(part)) :
        SubSeq(text, k + 1, k + Len(part)) = part

\* The rejection text of a disallowed list: one line per item, in order.
RejectionText(I) ==
    JoinTexts([k \in 1 .. Len(I) |-> formatted_line(I[k])], "\n")

\* C16: the classification stage makes at most MAX_ATTEMPTS calls and goes
\* on to a next call only after a call that raised; when all MAX_ATTEMPTS
\* calls have raised, and only then, process_code returns status "fail"
\* with a reply that carries the text of the last exception; and the stage
\* invokes modify_code zero times, writes no project file and creates no
\* version.
C16_ClassificationBounded ==
    /\ [](pc = "classify" => i < MAX_ATTEMPTS /\ attempts = 0)
    /\ [][pc = "classify"
            => /\ UNCHANGED <<disk, store, attempts>>
               /\ pc' = "classify" => lastRaise' # "" /\ i' = i + 1
               /\ pc' = "done" /\ reply' = "classification failed"
                    => /\ i + 1 = MAX_ATTEMPTS
                       /\ status' = "fail"
                       /\ lastRaise' \in ClassifyExceptions
                       /\ lastRaise' \in Pieces(reply_text')
               /\ lastRaise' # "" /\ i + 1 = MAX_ATTEMPTS
                    => pc' = "done" /\ reply' = "classification failed"]_vars

\* The fifth classification call of a request on an existing project has
\* raised.
C16_AllFiveRaised ==
    /\ pc = "done"
    /\ status = "fail"
    /\ reply = "classification failed"
    /\ i = MAX_ATTEMPTS - 1
    /\ lastRaise = "ce2"
    /\ reply_text = <<"error: ", "ce2">>
    /\ attempts = 0
    /\ Len(log) = 1
    /\ ProjectFiles = log[1].snapshot

\* C18: when the classification response has been parsed, the generation
\* loop is entered exactly when Modification_Requests is non-empty, the
\* question path is taken exactly when Modification_Requests is empty and
\* Questions is not, and the acknowledgement is returned exactly when both
\* are empty, whatever Inappropriate holds.
C18_BranchByEmptiness ==
    [][pc = "classify" /\ lastRaise' = "" /\ status' # "error"
          => /\ pc' = "call" <=> Modification_Requests' # <<>>
             /\ pc' = "qna" <=> /\ Modification_Requests' = <<>>
                                /\ Questions' # <<>>
             /\ pc' = "done" /\ reply' = "nothing actionable"
                    <=> /\ Modification_Requests' = <<>>
                        /\ Questions' = <<>>]_vars

\* The generation loop is entered although questions and disallowed items
\* came with the request.
C18_GenerationWithQuestionsAndRejections ==
    /\ pc = "call"
    /\ i = 0
    /\ attempts = 0
    /\ Modification_Requests = <<RequestText>>
    /\ Questions = <<QuestionText>>
    /\ Inappropriate = <<"x1", "x2">>

\* C19: the first modify_code invocation of a request gets the joined
\* questions as its question argument, every later invocation gets the
\* empty string.
C19_QuestionOnlyInFirstAttempt ==
    InModifyCode => question = IF attempts = 1 THEN user_question ELSE ""

\* The third invocation, after an attempt that raised and an attempt that
\* ended in a compile error, of a request that came with a question.
C19_ThirdAttemptWithoutQuestion ==
    /\ pc = "llm"
    /\ attempts = 3
    /\ Questions = <<QuestionText>>
    /\ fail_message = FailMessage("exception")
    /\ lastReturn = <<"returned", "e1">>
    /\ question = ""

\* C20: when the classification returned a non-empty Inappropriate list,
\* the reply of every response that process_code returns afterwards
\* contains the rejection lines of all its items, in order.
C20_RejectionInEveryReply ==
    /\ ProcessCodeEnded
    /\ reply \in ReturnedReplies \ {"classification failed"}
    /\ Inappropriate # <<>>
    => Contains(reply_text, RejectionText(Inappropriate))

\* A failed generation whose request came with two disallowed items.
C20_FailedGenerationWithRejections ==
    /\ pc = "done"
    /\ reply = "generation failed"
    /\ Inappropriate = <<"x1", "x2">>
    /\ Modification_Requests = <<RequestText>>
    /\ Contains(reply_text,
                <<"sorry, '", "x1", "' cannot be helped with", "\n",
                  "sorry, '", "x2", "' cannot be helped with">>)

(***************************************************************************)
(* Claims about one attempt of the generation loop                         *)
(***************************************************************************)
\* The latest modify_code invocation ended in the exception `e`.
LastAttemptRaised(e) == lastReturn = <<"raised", e>>

\* C21: game_data that is not well-formed JSON never becomes the content of
\* data.json, and no step of an attempt whose data fails validation changes
\* data.json.
C21_InvalidDataNotWritten ==
    /\ [](data # BadData)
    /\ [][(\/ pc \in {"call", "llm", "write_code"}
           \/ pc = "write_data" /\ ValidationError(resp_data) # "")
             => UNCHANGED data]_vars

\* The second attempt produced invalid data; data.json still holds what
\* the first attempt wrote.
C21_InvalidDataAfterValidData ==
    /\ pc = "call"
    /\ attempts = 2
    /\ LastAttemptRaised(validate_json(BadData))
    /\ data \in DataTexts
    /\ code \in CodeTexts

\* C22: when the game_data of an attempt fails validation the compiler
\* check of that attempt still runs, and the request text of the next
\* attempt is the validation message joined by a newline with the compiler
\* output.
C22_ValidationErrorFeedsNextAttempt ==
    /\ [][pc = "write_data" /\ ValidationError(resp_data) # ""
             => pc' = "compile"]_vars
    /\ [](InModifyCode /\ LastAttemptRaised(validate_json(BadData))
             => request \in {ModifyCodeError(validate_json(BadData), tsc) :
                                 tsc \in CompilerOutputs})

\* C23: when the LLM call of an attempt raises, the attempt is over: no
\* project file and no version is written, no compiler check runs, the
\* attempt counts against MAX_ATTEMPTS, and the next attempt, if there is
\* one, gets the request text that this attempt got.
C23_RaisedAttemptKeepsRequest ==
    /\ [][pc = "llm" /\ pc' # "write_code"
             => /\ LastAttemptRaised("exception")'
                /\ UNCHANGED <<code, data, asset, log, cur>>
                /\ message' = request
                /\ IF attempts < MAX_ATTEMPTS
                   THEN pc' = "call" /\ i' = attempts
                   ELSE pc' = "finish"]_vars
    /\ [][pc = "call" => request' = message]_vars
    /\ [](InModifyCode => attempts = i + 1 /\ attempts <= MAX_ATTEMPTS)

\* The second attempt runs with the original request after the LLM call
\* of the first one raised; nothing has been written.
C23_SecondAttemptAfterRaise ==
    /\ pc = "llm"
    /\ attempts = 2
    /\ LastAttemptRaised("exception")
    /\ request = RequestText
    /\ ProjectFiles = NoFiles

\* C24: the reply of a request whose generation loop is exhausted, and
\* the bot chat entry that records it, hold the error text of the failed
\* attempts: when the last attempt returned a compile error, that error.
C24_ExhaustedReplyHoldsErrors ==
    /\ pc = "done"
    /\ reply = "generation failed"
    /\ lastReturn[1] = "returned"
    => /\ lastReturn[2] \in Pieces(reply_text)
       /\ chat[Len(chat)] = <<"bot", reply>>

(***************************************************************************)
(* Claims about the order of the effects of one request                    *)
(***************************************************************************)
\* A process_code request is running (its response has not left yet).
ProcessCodeRunning == started[1] = "process_code"

\* C25: while a process_code request runs, game.ts is written only by the
\* source step, which is followed by the data step; data.json and the
\* assets are written only by the data step, which is followed by the
\* compiler check; the compiler check writes nothing; and a version is
\* appended only by the step after the loop, when the last attempt passed
\* the compiler check, and it is the snapshot of the files as that check
\* left them.
C25_WritesThenCheckThenSnapshot ==
    /\ [][ProcessCodeRunning
            => /\ code' # code => pc = "write_code"
               /\ data' # data \/ asset' # asset => pc = "write_data"
               /\ pc = "write_code" => pc' = "write_data"
               /\ pc = "write_data" => pc' \in {"compile", "call", "finish"}
               /\ pc = "write_data" /\ pc' # "compile"
                     => /\ UNCHANGED disk
                        /\ lastReturn'[1] = "raised"
               /\ pc = "compile" => /\ UNCHANGED disk
                                    /\ pc' \in {"call", "finish"}
               /\ log' # log
                     => /\ pc = "finish"
                        /\ lastReturn = <<"returned", "">>
                        /\ UNCHANGED disk
                        /\ log'[Len(log')].snapshot = ProjectFiles]_vars
    /\ [](pc = "finish" /\ success => lastReturn = <<"returned", "">>)

\* The second attempt wrote game.ts and data.json and passed the check; the
\* version holds both.
C25_SnapshotAfterSecondAttempt ==
    /\ pc = "done"
    /\ reply = "generated"
    /\ attempts = 2
    /\ game_code \in CodeTexts
    /\ game_data \in DataTexts
    /\ log # <<>>
    /\ log[Len(log)].snapshot = ProjectFiles
    /\ ProjectFiles.code = game_code
    /\ ProjectFiles.data = game_data

\* C26: a version that process_code appends is a root exactly when the
\* version log was empty, and is otherwise a child of the version that was
\* current.
C26_RootIffLogEmpty ==
    [][ProcessCodeRunning /\ log' # log
          => LET v == log'[Len(log')]
             IN IF log = <<>> THEN v.parent = None ELSE v.parent = cur]_vars

\* C27: no step of a request that is classified as questions only touches
\* the project files or the version store; it appends at most one chat
\* entry.
C27_QuestionPathReadOnly ==
    [][(/\ ProcessCodeRunning
        /\ Modification_Requests' = <<>>
        /\ Questions' # <<>>)
          => /\ UNCHANGED <<dirExists, code, data, asset, log, cur>>
             /\ \/ chat' = chat
                \/ \E entry \in {"user", "bot"} \X {"message", "answer",
                                                     "question failed"} :
                       chat' = Append(chat, entry)]_vars

\* A question about a project that has files and a version was answered.
C27_AnsweredOnExistingProject ==
    /\ pc = "done"
    /\ reply = "answer"
    /\ status = "success"
    /\ attempts = 0
    /\ Len(log) = 1
    /\ ProjectFiles = log[1].snapshot
    /\ ProjectFiles # NoFiles

\* C28: the question path makes at most MAX_ATTEMPTS calls and goes on to
\* a next call only after a call that raised; it returns status "fail",
\* with the text of the last exception in the reply, exactly when all
\* MAX_ATTEMPTS calls have raised, and status "success" with the answer in
\* the reply as soon as a call returns.
C28_QuestionCallsBounded ==
    /\ [](pc = "qna" => i < MAX_ATTEMPTS)
    /\ [][pc = "qna"
            => /\ pc' = "qna" => lastRaise' # "" /\ i' = i + 1
               /\ pc' = "done" /\ status' = "fail"
                    => /\ i + 1 = MAX_ATTEMPTS
                       /\ lastRaise' \in QnaExceptions
                       /\ lastRaise' \in Pieces(reply_text')
               /\ pc' = "done" /\ status' # "fail"
                    => /\ status' = "success"
                       /\ lastRaise' = ""
                       /\ "answer" \in Pieces(reply_text')
               /\ lastRaise' # "" /\ i + 1 = MAX_ATTEMPTS
                    => pc' = "done" /\ status' = "fail"]_vars

\* The fifth question call has raised.
C28_AllFiveQuestionCallsRaised ==
    /\ pc = "done"
    /\ status = "fail"
    /\ reply = "question failed"
    /\ i = MAX_ATTEMPTS - 1
    /\ lastRaise = "qe1"
    /\ <<"error: ", "qe1">> = fail_message
    /\ Contains(reply_text, fail_message)

\* C29: a request that went through the generation loop is answered with
\* status "success" exactly when its last attempt returned an empty error,
\* and with status "fail" exactly when MAX_ATTEMPTS attempts were made and
\* the last one raised or returned a non-empty error.
C29_SuccessIffEmptyError ==
    LoopOutcome
        => /\ status \in {"success", "fail"}
           /\ status = "success" <=> lastReturn = <<"returned", "">>
           /\ status = "fail" <=> /\ attempts = MAX_ATTEMPTS
                                  /\ lastReturn # <<"returned", "">>
           /\ status = "success" => attempts \in 1 .. MAX_ATTEMPTS

\* The fifth attempt passed the check although it generated code only.
C29_SuccessWithoutData ==
    /\ pc = "done"
    /\ status = "success"
    /\ reply = "generated"
    /\ attempts = MAX_ATTEMPTS
    /\ game_code \in CodeTexts
    /\ game_data = ""

Prompt ==
    IF PromptTemplate(code) = "create"
    THEN [template |-> "create", request |-> request, question |-> question,
          original_code |-> "", original_data |-> ""]
    ELSE [template |-> "modify", request |-> request, question |-> question,
          original_code |-> code, original_data |-> data]

\* A later attempt of a request whose project had no game.ts when the
\* request came in, and has one now: an earlier attempt of this request
\* wrote it.
LaterAttemptOnWrittenSource ==
    /\ pc = "llm"
    /\ attempts > 1
    /\ is_first_created
    /\ code # ""

\* C31: an attempt builds the "create" prompt exactly when game.ts is
\* absent or empty at its start; and once an attempt of a request has
\* written a non-empty game_code, every later attempt of that request
\* uses the "modify" prompt, with the source just written and with the
\* error of the previous attempt as its request.
C31_ModifyPromptCarriesPreviousError ==
    /\ pc = "llm" => (Prompt.template = "create" <=> code = "")
    /\ LaterAttemptOnWrittenSource
         => /\ Prompt.template = "modify"
            /\ Prompt.original_code = code
            /\ Prompt.request = lastReturn[2]

(***************************************************************************)
(* The live files and the current version                                  *)
(***************************************************************************)
\* The files captured in the snapshot of the current version.
CurrentSnapshot == VersionRecord(log, cur).snapshot

\* C32: when a /process-code request ends on a project that has at least
\* one version, the live game.ts and data.json are those of the snapshot of
\* the current version (so a request that fails, or succeeds with an empty
\* last attempt, has left the live source and data alone).
C32_LiveFilesEqualCurrentSnapshot ==
    ProcessCodeEnded /\ log # <<>>
        => /\ code = CurrentSnapshot.code
           /\ data = CurrentSnapshot.data

(***************************************************************************)
(* Roots of the version log                                                *)
(***************************************************************************)
\* The server when only /process-code, /data-update and /replace-asset
\* are requested.
CreatingNext ==
    \/ StartProcessCode
    \/ ProcessCodeStep
    \/ \E d \in DataTexts : process_chat_data(d)
    \/ \E a \in AssetBytes, ok \in BOOLEAN : replace_asset(a, ok)
    \/ Respond

CreatingSpec == Init /\ [][CreatingNext]_vars

\* The records of the log that have no parent.
Roots(l) == {k \in DOMAIN l : l[k].parent = None}

\* C33: whatever /process-code, /data-update and /replace-asset requests
\* a project has served, its version log has at most one record without
\* a parent.
C33_SingleRoot == Cardinality(Roots(log)) <= 1

(***************************************************************************)
(* The parent of a new version                                             *)
(***************************************************************************)
\* The version appended by the step.
NewVersion == log'[Len(log')]

\* C34: a request that creates a version appends exactly one record, whose
\* parent is the current-version pointer as read just before, and moves
\* the pointer to it, whichever endpoint serves the request; a restore
\* sets the pointer to the restored version, so the version created next
\* is its child.
C34_NewVersionIsChildOfPointer ==
    /\ [][log' # log
            => /\ Len(log') = Len(log) + 1
               /\ SubSeq(log', 1, Len(log)) = log
               /\ NewVersion.parent =
                      find_current_version_from_file(log, cur).version
               /\ cur' = NewVersion.name]_vars
    /\ [][pc = "idle" /\ reply' = "restored" => cur' = lastRestore'[1]]_vars

(***************************************************************************)
(* Order of the chat entries of a request                                  *)
(***************************************************************************)
\* The running request is at or past its first question or generation
\* call of the model (gemini.py:721, 774).
PastClassification ==
    /\ ProcessCodeRunning
    /\ pc \in {"qna", "call", "llm", "write_code", "write_data", "compile",
               "finish"}

\* C35: of the chat entries that a process_code request appends, a user
\* entry comes before any bot entry, and the user entry is in the log
\* before the first question or generation call of the request is made.
C35_UserEntryFirst ==
    /\ ProcessCodeRunning
         => \A k \in 1 .. Len(ChatAdded) :
                ChatAdded[k][1] = "user" => k = 1
    /\ PastClassification
         => /\ Len(ChatAdded) = 1
            /\ ChatAdded[1][1] = "user"

\* A generation that failed after its five attempts has appended the
\* request and then the failure message.
C35_UserThenBotAfterFailure ==
    /\ ProcessCodeEnded
    /\ reply = "generation failed"
    /\ attempts = MAX_ATTEMPTS
    /\ ChatAdded = <<<<"user", RequestText>>, <<"bot", "generation failed">>>>

(***************************************************************************)
(* GET /static/{game_name}/{file_path:path} (gemini.py:1363-1390).  A path *)
(* is the sequence of its segments; an absolute path starts at the root of *)
(* the file system.                                                        *)
(***************************************************************************)
\* gemini.py:1319: the directory that holds the projects, below the root
\* of the file system.
GAMES_ROOT_DIR == <<"public">>

\* The regular files of the file system: two projects and a file outside
\* GAMES_ROOT_DIR.
RegularFiles ==
    {<<"public", "g1", "game.ts">>,
     <<"public", "g1", "data.json">>,
     <<"public", "g1", "assets", "img.png">>,
     <<"public", "g2", "game.ts">>,
     <<"secret">>}

\* Longest file_path of a request, in segments.
MaxSegments == 3

\* The path parameters of a request.
GameNames == {"g1", "g2", ".."}
FilePaths ==
    UNION {[1 .. k -> {"assets", "..", "img.png", "game.ts", "g2"}] :
               k \in 1 .. MaxSegments}

\* file_path.startswith("assets/")
StartsWithAssets(file_path) == Len(file_path) >= 2 /\ file_path[1] = "assets"

\* Path.resolve() of an absolute path without symbolic links: ".." drops
\* the segment before it, and stays at the root of the file system.
RECURSIVE resolve(_)
resolve(path) ==
    IF path = <<>> THEN <<>>
    ELSE LET base == resolve(SubSeq(path, 1, Len(path) - 1))
             last == path[Len(path)]
         IN IF last # ".." THEN Append(base, last)
            ELSE IF base = <<>> THEN <<>>
            ELSE SubSeq(base, 1, Len(base) - 1)

\* gemini.py:1363-1390: the status code of the response and the file it
\* carries.  is_relative_to is a test on the leading segments.  The
\* HTTPException(403) of line 1381 is raised inside the try block and
\* caught by `except Exception`, which raises 404.
serve_selective_static_file(game_name, file_path) ==
    IF ~StartsWithAssets(file_path)
    THEN [status_code |-> 403, file |-> <<>>]
    ELSE LET full_path == GAMES_ROOT_DIR \o <<game_name>> \o file_path
             resolved_path == resolve(full_path)
         IN IF ~startswith(resolved_path, GAMES_ROOT_DIR)
            THEN [status_code |-> 404, file |-> <<>>]
            ELSE IF resolved_path \in RegularFiles
            THEN [status_code |-> 200, file |-> resolved_path]
            ELSE [status_code |-> 404, file |-> <<>>]

StaticInit ==
    /\ ProjectInit
    /\ textCall \in
           {[fn |-> "serve_selective_static_file", src |-> <<>>,
             arg |-> [game_name |-> g, file_path |-> p],
             ret |-> <<>>, done |-> FALSE] :
                g \in GameNames, p \in FilePaths}

serve_selective_static_file_call ==
    /\ textCall.fn = "serve_selective_static_file"
    /\ ~textCall.done
    /\ textCall' = [textCall EXCEPT
                        !.ret = serve_selective_static_file(
                                    textCall.arg.game_name,
                                    textCall.arg.file_path),
                        !.done = TRUE]
    /\ UNCHANGED projectVars

StaticSpec == StaticInit /\ [][serve_selective_static_file_call]_vars

\* <GAMES_ROOT_DIR>/<game_name>/assets
AssetsDir(game_name) == resolve(GAMES_ROOT_DIR \o <<game_name, "assets">>)

\* C36: a request is answered with a file only when the file lies inside
\* the assets directory of the project named in the request; a path that
\* resolves to anything else (game.ts or data.json of the project, say,
\* through a ".." segment) is refused.
C36_OnlyAssetsServed ==
    /\ textCall.fn = "serve_selective_static_file"
    /\ textCall.done
    /\ textCall.ret.status_code = 200
    => startswith(textCall.ret.file, AssetsDir(textCall.arg.game_name))

(***************************************************************************)
(* nano_banana_style_image_editing (genai_image.py:15-97)                  *)
(***************************************************************************)
\* genai_image.py:60, 87: for attempt in range(1, 5)
FETCH_ATTEMPTS == 4

\* What response.read() can give: nothing, or the bytes of an image.
ImageData == {"", "b1", "b2"}

\* The return value None.
ReturnsNone == "None"

\* Lengths of the stripped text that the analysis call answers with.
PromptLengths == {0, 500, 800, 801}

\* genai_image.py:43-45: the length of generated_prompt.
PromptLength(n) == IF n > 800 THEN 800 ELSE n

\* Faulty variant: the size is reduced from the second attempt on.
TargetWidthEarly(attempt, target_width) ==
    IF attempt > 1 THEN 256 ELSE target_width

\* genai_image.py:64-66: target_width (and target_height) in the attempt.
TargetWidth(attempt, target_width) ==
    IF attempt > 2 THEN 256 ELSE target_width

\* genai_image.py:88
WaitTime(attempt) == attempt * 2

\* genai_image.py:21-22: the function is entered.  fetches holds, per
\* fetch attempt made, the width asked for, what came of it and the
\* seconds slept after it.
ImageInit ==
    /\ ProjectInit
    /\ textCall = [fn |-> "nano_banana_style_image_editing",
                   pos |-> "analyze", prompt |-> 0, attempt |-> 0,
                   target_width |-> 0, fetches |-> <<>>, ret |-> ReturnsNone]

ImageCall == textCall.fn = "nano_banana_style_image_editing"

\* genai_image.py:27-47, 95-97: pil_image_to_bytes or generate_content
\* raises; the outer except returns None.
ImageAnalyzeRaises ==
    /\ ImageCall
    /\ textCall.pos = "analyze"
    /\ textCall' = [textCall EXCEPT !.pos = "returned", !.ret = ReturnsNone]
    /\ UNCHANGED projectVars

\* genai_image.py:27-60: the prompt is generated, n characters long
\* before it is cut; the loop is entered.
ImageAnalyzeReturns(n) ==
    /\ ImageCall
    /\ textCall.pos = "analyze"
    /\ textCall' = [textCall EXCEPT !.pos = "fetch", !.attempt = 1,
                                    !.prompt = PromptLength(n),
                                    !.target_width = 512]
    /\ UNCHANGED projectVars

\* genai_image.py:61-78, 85-93: urlopen or read raises.
ImageFetchRaises ==
    /\ ImageCall
    /\ textCall.pos = "fetch"
    /\ LET attempt == textCall.attempt
           width == TargetWidth(attempt, textCall.target_width)
           last == ~(attempt < FETCH_ATTEMPTS)
       IN textCall' =
              [textCall EXCEPT
                  !.target_width = width,
                  !.fetches = Append(@, [width |-> width,
                                         result |-> "raised",
                                         slept |-> IF last THEN 0
                                                   ELSE WaitTime(attempt)]),
                  !.attempt = IF last THEN attempt ELSE attempt + 1,
                  !.pos = IF last THEN "returned" ELSE "fetch",
                  !.ret = ReturnsNone]
    /\ UNCHANGED projectVars

\* genai_image.py:61-83: the response is read.  Empty data goes on to the
\* next attempt without waiting; after the last attempt the function ends
\* without a return statement.
ImageFetchReturns(image_data) ==
    /\ ImageCall
    /\ textCall.pos = "fetch"
    /\ LET attempt == textCall.attempt
           width == TargetWidth(attempt, textCall.target_width)
           last == ~(attempt < FETCH_ATTEMPTS)
       IN textCall' =
              [textCall EXCEPT
                  !.target_width = width,
                  !.fetches = Append(@, [width |-> width,
                                         result |-> image_data,
                                         slept |-> 0]),
                  !.attempt = IF image_data # "" \/ last THEN attempt
                              ELSE attempt + 1,
                  !.pos = IF image_data # "" \/ last THEN "returned"
                          ELSE "fetch",
                  !.ret = IF image_data # "" THEN image_data
                          ELSE ReturnsNone]
    /\ UNCHANGED projectVars

ImageSpec ==
    ImageInit /\ [][\/ ImageAnalyzeRaises
                    \/ \E n \in PromptLengths : ImageAnalyzeReturns(n)
                    \/ ImageFetchRaises
                    \/ \E d \in ImageData : ImageFetchReturns(d)]_vars

\* C37: the function makes at most 4 fetch attempts, asks for 512x512 in
\* attempts 1 and 2 and for 256x256 in attempts 3 and 4, sleeps 2*attempt
\* seconds after an attempt that raised and is not the last and never
\* otherwise, returns the first non-empty data it read, returns None when
\* no attempt gave non-empty data, and always ends by returning.
C37_FetchAttempts ==
    ImageCall =>
        LET f == textCall.fetches
            n == Len(f)
        IN /\ n <= 4
           /\ \A k \in 1 .. n :
                 /\ f[k].width = IF k <= 2 THEN 512 ELSE 256
                 /\ f[k].slept = IF f[k].result = "raised" /\ k < 4
                                 THEN 2 * k ELSE 0
                 /\ k < n => f[k].result \in {"raised", ""}
           /\ textCall.pos \in {"analyze", "fetch", "returned"}
           /\ textCall.pos = "analyze" => n = 0
           /\ textCall.pos = "fetch" => n = textCall.attempt - 1
           /\ textCall.pos = "returned" =>
                 IF n > 0 /\ f[n].result \notin {"raised", ""}
                 THEN textCall.ret = f[n].result
                 ELSE /\ textCall.ret = ReturnsNone
                      /\ n \in {0, 4}

\* The image arrives in the fourth attempt, after a failure, an empty
\* response and another failure.
C37_ImageInFourthAttempt ==
    /\ ImageCall
    /\ textCall.pos = "returned"
    /\ textCall.ret = "b1"
    /\ textCall.prompt = 800
    /\ textCall.fetches =
           <<[width |-> 512, result |-> "raised", slept |-> 2],
             [width |-> 512, result |-> "", slept |-> 0],
             [width |-> 256, result |-> "raised", slept |-> 6],
             [width |-> 256, result |-> "b1", slept |-> 0]>>

(***************************************************************************)
(* check_and_create_images_with_text (make_dummy_image_asset.py:16-115)    *)
(* and create_dummy_image (117-149)                                        *)
(***************************************************************************)
\* make_dummy_image_asset.py:70: for attempt in range(1, 4)
IMAGE_ATTEMPTS == 3

\* Most images listed in data['assets']['images'].
MaxImages == 2

\* The file names of the listed images, all in the target directory.
ImageFiles == {"p1.png", "p2.png"}

\* The function is entered (lines 22-34) with a non-empty list, some of
\* the files being present; `files` is the target directory ("" = no
\* such file, "old" = a file that was there before the call), `made`
\* holds per image taken up its name, the fetch attempts made for it and
\* what was written.
ImagesInit ==
    /\ ProjectInit
    /\ \E list \in UNION {[1 .. k -> ImageFiles] : k \in 1 .. MaxImages},
          present \in SUBSET ImageFiles :
          textCall = [fn |-> "check_and_create_images_with_text",
                      images |-> list, present |-> present,
                      files |-> [f \in ImageFiles |->
                                    IF f \in present THEN "old" ELSE ""],
                      pos |-> "item", item |-> 1, attempt |-> 0,
                      image_data |-> "", made |-> <<>>]

\* The call is at position p.
ImagesAt(p) ==
    /\ textCall.fn = "check_and_create_images_with_text"
    /\ textCall.pos = p

\* The work on the current image ends: what was written, and the next
\* item of the loop.
ImageMade(call, written) ==
    [call EXCEPT !.made = Append(@, [name |-> call.images[call.item],
                                     attempts |-> call.attempt,
                                     written |-> written]),
                 !.item = @ + 1, !.pos = "item", !.attempt = 0,
                 !.image_data = ""]

\* Lines 36-53: the next item, skipped when its file exists; the function
\* returns after the last one.
ImagesNextItem ==
    /\ ImagesAt("item")
    /\ textCall' =
           IF textCall.item > Len(textCall.images)
           THEN [textCall EXCEPT !.pos = "returned"]
           ELSE IF textCall.files[textCall.images[textCall.item]] # ""
           THEN ImageMade(textCall, "skipped")
           ELSE [textCall EXCEPT !.pos = "fetch"]
    /\ UNCHANGED projectVars

\* Lines 70-94: a fetch attempt raises (and sleeps 2 seconds) or reads
\* empty data; after the last attempt the exception of line 94 is raised.
ImagesFetchFails ==
    /\ ImagesAt("fetch")
    /\ textCall' =
           IF textCall.attempt + 1 < IMAGE_ATTEMPTS
           THEN [textCall EXCEPT !.attempt = @ + 1]
           ELSE [textCall EXCEPT !.attempt = @ + 1, !.pos = "dummy"]
    /\ UNCHANGED projectVars

\* Lines 70-88: a fetch attempt reads image data; the loop is left.
ImagesFetchReturns(d) ==
    /\ ImagesAt("fetch")
    /\ textCall' = [textCall EXCEPT !.attempt = @ + 1, !.image_data = d,
                                    !.pos = "save"]
    /\ UNCHANGED projectVars

\* Lines 96-107 and 110: the data is written to the file, or removing
\* the background or writing raises outside an inner handler and the
\* outer except takes over.
ImagesSave(ok) ==
    /\ ImagesAt("save")
    /\ textCall' =
           IF ok
           THEN ImageMade([textCall EXCEPT
                               !.files[textCall.images[textCall.item]] =
                                   textCall.image_data],
                          textCall.image_data)
           ELSE [textCall EXCEPT !.pos = "dummy"]
    /\ UNCHANGED projectVars

\* Lines 110-113 and 117-149: create_dummy_image saves the placeholder,
\* or something in it raises (the size is not a pair of positive numbers,
\* the file name has no extension that PIL knows, the file cannot be
\* written) and its except prints and returns.
ImagesDummy(ok) ==
    /\ ImagesAt("dummy")
    /\ textCall' =
           IF ok
           THEN ImageMade([textCall EXCEPT
                               !.files[textCall.images[textCall.item]] =
                                   "dummy"],
                          "dummy")
           ELSE ImageMade(textCall, "nothing")
    /\ UNCHANGED projectVars

ImagesSpec ==
    ImagesInit /\ [][\/ ImagesNextItem
                     \/ ImagesFetchFails
                     \/ \E d \in {"b1"} : ImagesFetchReturns(d)
                     \/ \E ok \in BOOLEAN : ImagesSave(ok)
                     \/ \E ok \in BOOLEAN : ImagesDummy(ok)]_vars

\* C38: a file that exists is never overwritten; for a listed image
\* whose file does not exist at most 3 fetch attempts are made and then
\* the fetched image is written or, when every attempt failed, a
\* placeholder; and every listed image is taken up, whatever happened to
\* the ones before it.
C38_EveryMissingImageWritten ==
    textCall.fn = "check_and_create_images_with_text" =>
        /\ \A k \in 1 .. Len(textCall.made) :
              LET m == textCall.made[k]
              IN /\ m.name = textCall.images[k]
                 /\ m.attempts <= 3
                 /\ m.written = "skipped" => m.attempts = 0
                 /\ m.written # "skipped"
                      => /\ m.written \in {"b1", "dummy"}
                         /\ m.written = "dummy" => m.attempts = 3
                         /\ textCall.files[m.name] # ""
        /\ \A f \in textCall.present : textCall.files[f] = "old"
        /\ \A j, k \in 1 .. Len(textCall.made) :
              /\ j < k
              /\ textCall.made[j].name = textCall.made[k].name
              /\ textCall.made[j].written \in {"b1", "dummy"}
              => textCall.made[k].written = "skipped"
        /\ textCall.pos = "returned"
              => Len(textCall.made) = Len(textCall.images)

====
